---- MODULE Spec2Model ----
(***************************************************************************)
(* The Lookup Client of the offline dictionary (src/src/App.jsx): the      *)
(* React component App, its state hooks and refs, the startup load of      *)
(* /dictionary.json, the window keydown handler, the Search button, and    *)
(* the synonym tokens; and the Lexicon Compiler that writes the artifact    *)
(* the client loads (src/scripts/build-wordnet-json.cjs): the pass of      *)
(* parseDataFile over the four data files and the write of the output.     *)
(*                                                                         *)
(* JavaScript strings are sequences of one-character strings, so that      *)
(* trim() and toLowerCase() are computed.  JavaScript values that may be   *)
(* null are tagged records.  One handler run is one atomic step: React     *)
(* applies the batched setState calls of a handler before the next event.  *)
(***************************************************************************)
EXTENDS Integers, Sequences, FiniteSets, TLC

VARIABLES
    dictionary,    \* useState(null): the parsed artifact, or null
    loading,       \* useState(true)
    word,          \* useState(""): the content of the query field
    result,        \* useState(null): the displayed entry, or null
    error,         \* useState(""): the displayed message
    history,       \* useState([])
    historyRef,    \* useRef([]).current: the array the handlers read
    historyIndex,  \* useRef(-1).current: the recall cursor, -1 = none
    focused,       \* document.activeElement === inputRef.current
    event,         \* observation only: the handler that ran last, and whether
                   \* its pushHistory call shifted the oldest entry out
    compiled,      \* the script's dictionary: the own properties of the map
    objectProps,   \* the properties the script has put on the global Object
    cat,           \* the forEach position in ["noun", "verb", "adj", "adv"]
    fileOpen,      \* parseDataFile is inside its loop over the lines
    read,          \* observation only: the lines read so far, with their category
    console,       \* what the script has logged
    written,       \* the content of public/dictionary.json, or null
    absent         \* observation only: the categories whose data file was missing

cvars == <<compiled, objectProps, cat, fileOpen, read, console, written, absent>>

cvarsOfClient == <<dictionary, loading, word, result, error, history, historyRef,
                   historyIndex, focused>>

vars == <<dictionary, loading, word, result, error, history, historyRef,
          historyIndex, focused, event, cvars>>

---------------------------------------------------------------------------
(* Bounds of the explored sessions *)

\* a session of Spec records at most this many history entries
MaxSession == 3
\* the user holds a recalled position at most this far behind the newest entry
MaxRecall == 3

\* h.length > 100 in pushHistory
HistoryCap == 100

---------------------------------------------------------------------------
(* JavaScript values *)

null == [tag |-> "null"]
undefined == [tag |-> "undefined"]
Str(s) == [tag |-> "string", chars |-> s]
Obj(m) == [tag |-> "object", own |-> m]
\* what every plain object inherits under an all-lowercase name: __proto__
\* and constructor
ObjectPrototype == [tag |-> "inherited", name |-> "Object.prototype"]
ObjectFunction == [tag |-> "inherited", name |-> "Object"]
NaN == [tag |-> "NaN"]
Num(n) == [tag |-> "number", value |-> n]

Truthy(v) == v.tag \notin {"null", "undefined"}

\* a ?? b
Coalesce(a, b) == IF a.tag \in {"null", "undefined"} THEN b ELSE a

sEmpty == << >>
sProto == <<"_", "_", "p", "r", "o", "t", "o", "_", "_">>
sConstructor == <<"c", "o", "n", "s", "t", "r", "u", "c", "t", "o", "r">>

UpperLetters ==
    <<"A", "B", "C", "D", "E", "F", "G", "H", "I", "J", "K", "L", "M",
      "N", "O", "P", "Q", "R", "S", "T", "U", "V", "W", "X", "Y", "Z">>
LowerLetters ==
    <<"a", "b", "c", "d", "e", "f", "g", "h", "i", "j", "k", "l", "m",
      "n", "o", "p", "q", "r", "s", "t", "u", "v", "w", "x", "y", "z">>

\* String.prototype.toLowerCase, one character
LowerChar(c) ==
    IF \E i \in 1..26 : UpperLetters[i] = c
    THEN LowerLetters[CHOOSE i \in 1..26 : UpperLetters[i] = c]
    ELSE c

toLowerCase(s) == [i \in 1..Len(s) |-> LowerChar(s[i])]

IsSpace(c) == c \in {" ", "\t"}

RECURSIVE trimStart(_)
trimStart(s) ==
    IF s # << >> /\ IsSpace(Head(s)) THEN trimStart(Tail(s)) ELSE s

RECURSIVE trimEnd(_)
trimEnd(s) ==
    IF s # << >> /\ IsSpace(s[Len(s)])
    THEN trimEnd(SubSeq(s, 1, Len(s) - 1))
    ELSE s

\* a doSearch that forgets to trim
trimNothing(s) == s

\* String.prototype.trim
trim(s) == trimEnd(trimStart(s))

\* dictionary[term]: an own property, else what the prototype chain holds
GetProperty(obj, key) ==
    IF key \in DOMAIN obj.own THEN obj.own[key]
    ELSE IF key = sProto THEN ObjectPrototype
    ELSE IF key = sConstructor THEN ObjectFunction
    ELSE undefined

---------------------------------------------------------------------------
(* The artifact served at /dictionary.json: the synset {a, B} compiled as  *)
(* a noun sense, each word holding the other as its synonym.               *)

Sense(d, syns) == [definition |-> d, synonyms |-> syns]

Lexicon ==
    Obj( (<<"a">> :> Obj([noun |-> <<Sense("first letter", << <<"B">> >>)>>]))
      @@ (<<"b">> :> Obj([noun |-> <<Sense("first letter", << <<"a">> >>)>>])) )

\* the synonym tokens rendered for a displayed result (App.jsx 154-171)
Synonyms(res) ==
    IF res.tag # "object" THEN {}
    ELSE UNION { UNION { { d.synonyms[i] : i \in 1..Len(d.synonyms) }
                         : d \in { res.own[pos][j] : j \in 1..Len(res.own[pos]) } }
                 : pos \in DOMAIN res.own }

---------------------------------------------------------------------------
(* pushHistory and doSearch, as functions of the values they read *)

\* a pushHistory without the comparison with the last entry
pushHistoryAlways(term, h) ==
    IF term = sEmpty
    THEN [pushed |-> FALSE, shifted |-> FALSE, h |-> h, reset |-> FALSE]
    ELSE LET h1 == Append(h, term)
             over == Len(h1) > HistoryCap
         IN [pushed |-> TRUE, shifted |-> over,
             h |-> IF over THEN Tail(h1) ELSE h1, reset |-> TRUE]

\* a pushHistory without h.shift()
pushHistoryUnbounded(term, h) ==
    IF term = sEmpty
    THEN [pushed |-> FALSE, shifted |-> FALSE, h |-> h, reset |-> FALSE]
    ELSE IF Len(h) = 0 \/ h[Len(h)] # term
         THEN [pushed |-> TRUE, shifted |-> FALSE, h |-> Append(h, term),
               reset |-> TRUE]
         ELSE [pushed |-> FALSE, shifted |-> FALSE, h |-> h, reset |-> TRUE]

\* pushed: setHistory([...h]) ran; shifted: h.shift() ran; reset: the cursor
\* was set to -1
pushHistory(term, h) ==
    IF term = sEmpty
    THEN [pushed |-> FALSE, shifted |-> FALSE, h |-> h, reset |-> FALSE]
    ELSE IF Len(h) = 0 \/ h[Len(h)] # term
         THEN LET h1 == Append(h, term)
                  over == Len(h1) > HistoryCap
              IN [pushed |-> TRUE, shifted |-> over,
                  h |-> IF over THEN Tail(h1) ELSE h1, reset |-> TRUE]
         ELSE [pushed |-> FALSE, shifted |-> FALSE, h |-> h, reset |-> TRUE]

\* an empty-term branch without setResult(null)
emptyTermKeepsResult(res, hist, href, idx) ==
    [result |-> res, error |-> "Please enter a word.", history |-> hist,
     historyRef |-> href, historyIndex |-> idx, shifted |-> FALSE]

\* the branch of doSearch for an empty term (lines 76-80)
emptyTerm(res, hist, href, idx) ==
    [result |-> null, error |-> "Please enter a word.", history |-> hist,
     historyRef |-> href, historyIndex |-> idx, shifted |-> FALSE]

\* the branch of doSearch for a dictionary that is null (lines 81-85)
notLoaded(res, hist, href, idx) ==
    [result |-> res, error |-> "Dictionary not loaded yet.", history |-> hist,
     historyRef |-> href, historyIndex |-> idx, shifted |-> FALSE]

\* the lookup of doSearch (lines 87-96)
lookup(term, cDictionary, hist, href, idx) ==
    LET got == GetProperty(cDictionary, term)
        entry == IF Truthy(got) THEN got ELSE null
        p == pushHistory(term, href)
    IN [result |-> entry,
        error |-> IF Truthy(entry) THEN "" ELSE "No match.",
        history |-> IF p.pushed THEN p.h ELSE hist,
        historyRef |-> p.h,
        historyIndex |-> IF p.reset THEN -1 ELSE idx,
        shifted |-> p.shifted]

\* w: the argument; cWord, cDictionary: the word and dictionary of the render
\* whose closure runs; the other arguments: the state before the call
doSearch(w, cWord, cDictionary, res, hist, href, idx) ==
    LET term == toLowerCase(trim(Coalesce(Coalesce(w, Str(cWord)), Str(sEmpty)).chars))
    IN  IF term = sEmpty THEN emptyTerm(res, hist, href, idx)
        ELSE IF ~Truthy(cDictionary) THEN notLoaded(res, hist, href, idx)
        ELSE lookup(term, cDictionary, hist, href, idx)

Ev(name) == [name |-> name, shifted |-> FALSE]

\* the state after a doSearch call made by handler name
Apply(name, r) ==
    /\ event' = [name |-> name, shifted |-> r.shifted]
    /\ result' = r.result
    /\ error' = r.error
    /\ history' = r.history
    /\ historyRef' = r.historyRef
    /\ historyIndex' = r.historyIndex

---------------------------------------------------------------------------
Init ==
    /\ dictionary = null
    /\ loading = TRUE
    /\ word = sEmpty
    /\ result = null
    /\ error = ""
    /\ history = << >>
    /\ historyRef = << >>
    /\ historyIndex = -1
    /\ focused = FALSE
    /\ event = Ev("mount")
    /\ compiled = << >>
    /\ objectProps = << >>
    /\ cat = 1
    /\ fileOpen = FALSE
    /\ read = << >>
    /\ console = << [level |-> "log", text |-> "Building dictionary JSON from wordnet-db..."] >>
    /\ written = null
    /\ absent = {}

\* the load effect: fetch, res.ok and res.json() all succeed
LoadResolved ==
    /\ loading
    /\ dictionary' = Lexicon
    /\ loading' = FALSE
    /\ event' = Ev("loaded")
    /\ UNCHANGED <<word, result, error, history, historyRef, historyIndex, focused>>
    /\ UNCHANGED cvars

\* the load effect: fetch rejects, the status is not ok, or the body does not parse
LoadFailed ==
    /\ loading
    /\ error' = "Failed to load dictionary."
    /\ loading' = FALSE
    /\ event' = Ev("loadFailed")
    /\ UNCHANGED <<dictionary, word, result, history, historyRef, historyIndex, focused>>
    /\ UNCHANGED cvars

\* the input's onChange; the input is rendered once loading is false
onChange(s) ==
    /\ ~loading
    /\ word' = s
    /\ event' = Ev("change")
    /\ UNCHANGED <<dictionary, loading, result, error, history, historyRef,
                   historyIndex, focused>>
    /\ UNCHANGED cvars

FocusInput ==
    /\ ~loading
    /\ ~focused
    /\ focused' = TRUE
    /\ event' = Ev("focus")
    /\ UNCHANGED <<dictionary, loading, word, result, error, history, historyRef,
                   historyIndex>>
    /\ UNCHANGED cvars

BlurInput ==
    /\ focused
    /\ focused' = FALSE
    /\ event' = Ev("blur")
    /\ UNCHANGED <<dictionary, loading, word, result, error, history, historyRef,
                   historyIndex>>
    /\ UNCHANGED cvars

\* The keydown listener is registered once, by an effect with no dependencies:
\* the doSearch it calls is the one of the first render, whose word is "" and
\* whose dictionary is null.
FirstRenderWord == sEmpty
FirstRenderDictionary == null

\* a listener that does not look at the focused element
KeyEnterAnyFocus ==
    /\ Apply("Enter", doSearch(undefined, FirstRenderWord, FirstRenderDictionary,
                      result, history, historyRef, historyIndex))
    /\ UNCHANGED <<dictionary, loading, word, focused>>
    /\ UNCHANGED cvars

KeyEnter ==
    /\ IF focused
       THEN Apply("Enter", doSearch(undefined, FirstRenderWord, FirstRenderDictionary,
                           result, history, historyRef, historyIndex))
       ELSE /\ event' = Ev("Enter")
            /\ UNCHANGED <<result, error, history, historyRef, historyIndex>>
    /\ UNCHANGED <<dictionary, loading, word, focused>>
    /\ UNCHANGED cvars

\* an Escape that also makes the cursor fresh
KeyEscapeResetsCursor ==
    /\ event' = Ev("Escape")
    /\ word' = sEmpty
    /\ result' = null
    /\ historyIndex' = -1
    /\ UNCHANGED <<dictionary, loading, error, history, historyRef, focused>>
    /\ UNCHANGED cvars

KeyEscape ==
    /\ event' = Ev("Escape")
    /\ word' = sEmpty
    /\ result' = null
    /\ UNCHANGED <<dictionary, loading, error, history, historyRef, historyIndex,
                   focused>>
    /\ UNCHANGED cvars

\* an index counted from the length instead of the last position
recallIdxFromLength(len, i) == len - i

\* historyRef.current.length - 1 - historyIndex.current
recallIdx(len, i) == len - 1 - i

\* historyRef.current[idx] ?? ""
recalled(h, idx) == IF idx + 1 \in DOMAIN h THEN h[idx + 1] ELSE sEmpty

\* a backward step that compares the cursor with the length
KeyArrowUpPastOldest ==
    /\ event' = Ev("ArrowUp")
    /\ IF Len(historyRef) = 0
       THEN UNCHANGED <<word, historyIndex>>
       ELSE LET i == IF historyIndex < Len(historyRef)
                     THEN historyIndex + 1 ELSE historyIndex
                idx == recallIdx(Len(historyRef), i)
            IN /\ historyIndex' = i
               /\ word' = recalled(historyRef, idx)
    /\ UNCHANGED <<dictionary, loading, result, error, history, historyRef, focused>>
    /\ UNCHANGED cvars

KeyArrowUp ==
    /\ event' = Ev("ArrowUp")
    /\ IF Len(historyRef) = 0
       THEN UNCHANGED <<word, historyIndex>>
       ELSE LET i == IF historyIndex < Len(historyRef) - 1
                     THEN historyIndex + 1 ELSE historyIndex
                idx == recallIdx(Len(historyRef), i)
            IN /\ historyIndex' = i
               /\ word' = recalled(historyRef, idx)
    /\ UNCHANGED <<dictionary, loading, result, error, history, historyRef, focused>>
    /\ UNCHANGED cvars

\* a forward step that clears the displayed result when it empties the field
KeyArrowDownClearsResult ==
    /\ event' = Ev("ArrowDown")
    /\ IF Len(historyRef) = 0
       THEN UNCHANGED <<word, historyIndex, result>>
       ELSE IF historyIndex > 0
            THEN LET i == historyIndex - 1
                     idx == recallIdx(Len(historyRef), i)
                 IN /\ historyIndex' = i
                    /\ word' = recalled(historyRef, idx)
                    /\ result' = result
            ELSE /\ historyIndex' = -1
                 /\ word' = sEmpty
                 /\ result' = null
    /\ UNCHANGED <<dictionary, loading, error, history, historyRef, focused>>
    /\ UNCHANGED cvars

KeyArrowDown ==
    /\ event' = Ev("ArrowDown")
    /\ IF Len(historyRef) = 0
       THEN UNCHANGED <<word, historyIndex>>
       ELSE IF historyIndex > 0
            THEN LET i == historyIndex - 1
                     idx == recallIdx(Len(historyRef), i)
                 IN /\ historyIndex' = i
                    /\ word' = recalled(historyRef, idx)
            ELSE /\ historyIndex' = -1
                 /\ word' = sEmpty
    /\ UNCHANGED <<dictionary, loading, result, error, history, historyRef, focused>>
    /\ UNCHANGED cvars

\* the Search button: onClick={() => doSearch()} of the current render
ClickSearch ==
    /\ ~loading
    /\ Apply("search", doSearch(undefined, word, dictionary,
                      result, history, historyRef, historyIndex))
    /\ focused' \in {focused, FALSE}
    /\ UNCHANGED <<dictionary, loading, word>>
    /\ UNCHANGED cvars

\* an onClickSynonym that calls doSearch() and so reads the word of the
\* current render, which setWord(syn) has not changed yet
onClickSynonymStaleWord(syn) ==
    /\ ~loading
    /\ syn \in Synonyms(result)
    /\ word' = syn
    /\ Apply("synonym", doSearch(undefined, word, dictionary,
                                 result, history, historyRef, historyIndex))
    /\ focused' = TRUE
    /\ UNCHANGED <<dictionary, loading>>
    /\ UNCHANGED cvars

\* a synonym token of the displayed result
onClickSynonym(syn) ==
    /\ ~loading
    /\ syn \in Synonyms(result)
    /\ word' = syn
    /\ Apply("synonym", doSearch(Str(syn), word, dictionary,
                      result, history, historyRef, historyIndex))
    /\ focused' = TRUE
    /\ UNCHANGED <<dictionary, loading>>
    /\ UNCHANGED cvars


---------------------------------------------------------------------------
(* The Lexicon Compiler: scripts/build-wordnet-json.cjs                     *)

\* the number of lines a run of the script reads
MaxRecords == 2

\* a line of a data file, split at white space; indented: it starts with two
\* spaces.  synset says what the record is: the code reads the tokens only.
DataLine(indented, tokens, synset) ==
    [indented |-> indented, tokens |-> tokens, synset |-> synset]

\* arr[i] with i counted from 0: a string, or undefined past the end
At(arr, i) == IF i + 1 \in DOMAIN arr THEN Str(arr[i + 1]) ELSE undefined

HexDigits ==
    <<"0", "1", "2", "3", "4", "5", "6", "7", "8", "9", "a", "b", "c", "d", "e", "f">>

IsHexDigit(c) == \E i \in 1..16 : HexDigits[i] = LowerChar(c)
HexValue(c) == (CHOOSE i \in 1..16 : HexDigits[i] = LowerChar(c)) - 1

RECURSIVE hexPrefix(_, _)
\* the value of the leading hexadecimal digits of s after the value acc
hexPrefix(s, acc) ==
    IF s # << >> /\ IsHexDigit(Head(s))
    THEN hexPrefix(Tail(s), 16 * acc + HexValue(Head(s)))
    ELSE acc

\* a parseInt that answers 1 where the digits are missing
parseInt16OrOne(v) ==
    IF v.tag # "string" \/ v.chars = << >> \/ ~IsHexDigit(Head(v.chars))
    THEN Num(1)
    ELSE Num(hexPrefix(v.chars, 0))

\* parseInt(v, 16): the leading hexadecimal digits, NaN when there is none
parseInt16(v) ==
    IF v.tag # "string" \/ v.chars = << >> \/ ~IsHexDigit(Head(v.chars))
    THEN NaN
    ELSE Num(hexPrefix(v.chars, 0))

\* w.replace(/_/g, " ")
replaceUnderscores(w) == [i \in 1..Len(w) |-> IF w[i] = "_" THEN " " ELSE w[i]]

normalize(w) == toLowerCase(w)

\* the words of a record: rest[i * 2] for i < wcnt, where there is one
extractWords(rest, wcnt) ==
    LET picked == [i \in 1..wcnt |-> At(rest, (i - 1) * 2)]
        present(v) == v.tag = "string" /\ v.chars # << >>
        kept == SelectSeq(picked, present)
    IN [i \in 1..Len(kept) |-> replaceUnderscores(kept[i].chars)]

RECURSIVE Join(_)
\* tokens with one space between them
Join(toks) ==
    IF toks = << >> THEN << >>
    ELSE IF Len(toks) = 1 THEN toks[1]
    ELSE toks[1] \o <<" ">> \o Join(Tail(toks))

\* line.indexOf(" | ") and the slice after it, trimmed
extractGloss(tokens) ==
    LET pipes == { i \in 2..(Len(tokens) - 1) : tokens[i] = <<"|">> }
    IN IF pipes = {} THEN << >>
       ELSE LET first == CHOOSE i \in pipes : \A j \in pipes : i <= j
            IN trim(Join(SubSeq(tokens, first + 1, Len(tokens))))

\* ss_type -> posKey
posKeyOf(ss_type) ==
    IF ss_type = Str(<<"n">>) THEN Str("noun")
    ELSE IF ss_type = Str(<<"v">>) THEN Str("verb")
    ELSE IF ss_type \in {Str(<<"a">>), Str(<<"s">>)} THEN Str("adj")
    ELSE IF ss_type = Str(<<"r">>) THEN Str("adv")
    ELSE null

\* words.filter(x => x.toLowerCase() !== w.toLowerCase())
synonymsOf(words, w) ==
    SelectSeq(words, LAMBDA x : toLowerCase(x) # toLowerCase(w))

\* The body of "for (const w of words)" on the state st = [own, obj]: own holds
\* the own properties of dictionary, obj those put on the global Object.
\* dictionary[key] reads through the prototype chain, so for the key
\* constructor it is the Object function: no own property is created and the
\* sense record lands on Object[posKey].
addWord(st, words, w, posKey, gloss) ==
    LET key == normalize(w)
        sense == Sense(gloss, synonymsOf(words, w))
    IN IF key \notin DOMAIN st.own /\ key = sConstructor
       THEN LET old == IF posKey \in DOMAIN st.obj THEN st.obj[posKey] ELSE << >>
            IN [st EXCEPT !.obj = (posKey :> Append(old, sense)) @@ st.obj]
       ELSE LET entry == IF key \in DOMAIN st.own THEN st.own[key] ELSE << >>
                old == IF posKey \in DOMAIN entry THEN entry[posKey] ELSE << >>
                new == (posKey :> Append(old, sense)) @@ entry
            IN [st EXCEPT !.own = (key :> new) @@ st.own]

RECURSIVE addWords(_, _, _, _, _)
addWords(st, words, k, posKey, gloss) ==
    IF k > Len(words) THEN st
    ELSE addWords(addWord(st, words, words[k], posKey, gloss), words, k + 1,
                  posKey, gloss)

\* one turn of the loop of parseDataFile over the lines
parseLine(st, line) ==
    IF line.tokens = << >> \/ line.indented THEN st
    ELSE LET ss_type == At(line.tokens, 2)
             wcnt == parseInt16(At(line.tokens, 3))
             rest == SubSeq(line.tokens, 5, Len(line.tokens))
         IN IF wcnt.tag = "NaN" \/ wcnt.value <= 0 THEN st
            ELSE LET words == extractWords(rest, wcnt.value)
                     gloss == extractGloss(line.tokens)
                     posKey == posKeyOf(ss_type)
                 IN IF posKey.tag = "null" THEN st
                    ELSE addWords(st, words, 1, posKey.chars, gloss)

\* JSON.stringify(dictionary) as the client's res.json() reads it back
artifactOf(own) == Obj([k \in DOMAIN own |-> Obj(own[k])])

Categories == <<"noun", "verb", "adj", "adv">>

Log(text) == [level |-> "log", text |-> text]

\* parseDataFile(p) where data.<p> does not exist: the bare return of line 83
DataFileMissing ==
    /\ cat <= Len(Categories)
    /\ ~fileOpen
    /\ cat' = cat + 1
    /\ absent' = absent \cup {cat}
    /\ event' = Ev("missing")
    /\ UNCHANGED <<compiled, objectProps, fileOpen, read, console, written>>
    /\ UNCHANGED cvarsOfClient

\* parseDataFile(p): the file exists and is read
DataFileRead ==
    /\ cat <= Len(Categories)
    /\ ~fileOpen
    /\ fileOpen' = TRUE
    /\ event' = Ev("open")
    /\ UNCHANGED <<compiled, objectProps, cat, absent, read, console, written>>
    /\ UNCHANGED cvarsOfClient

\* the next line of the file
ReadLine(line) ==
    /\ fileOpen
    /\ Len(read) < MaxRecords
    /\ LET st == parseLine([own |-> compiled, obj |-> objectProps], line)
       IN /\ compiled' = st.own
          /\ objectProps' = st.obj
    /\ read' = Append(read, [cat |-> cat, line |-> line])
    /\ event' = Ev("line")
    /\ UNCHANGED <<cat, absent, fileOpen, console, written>>
    /\ UNCHANGED cvarsOfClient

\* the last line of the file has been read
EndOfFile ==
    /\ fileOpen
    /\ fileOpen' = FALSE
    /\ cat' = cat + 1
    /\ event' = Ev("eof")
    /\ UNCHANGED <<compiled, objectProps, absent, read, console, written>>
    /\ UNCHANGED cvarsOfClient

\* lines 126-129: the count is logged and the artifact written
WriteArtifact ==
    /\ cat = Len(Categories) + 1
    /\ written = null
    /\ written' = artifactOf(compiled)
    /\ console' = console \o << [level |-> "log", text |-> "Built dictionary entries:",
                                 count |-> Cardinality(DOMAIN compiled)],
                                Log("Wrote public/dictionary.json") >>
    /\ event' = Ev("write")
    /\ UNCHANGED <<compiled, objectProps, cat, absent, fileOpen, read>>
    /\ UNCHANGED cvarsOfClient

---------------------------------------------------------------------------
(* The data lines of the explored runs *)

\* word lex_id word lex_id ...
RECURSIVE Interleave(_)
Interleave(ws) ==
    IF ws = << >> THEN << >>
    ELSE <<Head(ws), <<"0">>>> \o Interleave(Tail(ws))

\* offset lex_filenum ss_type w_cnt word lex_id ... p_cnt | gloss
RecordLine(ss_type, w_cnt, ws, glossToks) ==
    DataLine(FALSE,
             << <<"0", "0", "1", "7">>, <<"0", "0">>, ss_type, w_cnt >>
               \o Interleave(ws) \o << <<"0", "0", "0">> >>
               \o (IF glossToks = << >> THEN << >> ELSE << <<"|">> >> \o glossToks),
             [ss_type |-> ss_type, w_cnt |-> w_cnt, words |-> ws, gloss |-> glossToks])

NoSynset == [ss_type |-> << >>, w_cnt |-> << >>, words |-> << >>, gloss |-> << >>]

wHappy == <<"h", "a", "p", "p", "y">>
wGlad == <<"g", "l", "a", "d">>
wBuilder == <<"b", "u", "i", "l", "d", "e", "r">>
gFeelingJoy == << <<"f", "e", "e", "l", "i", "n", "g">>, <<"j", "o", "y">> >>
gMaker == << <<"m", "a", "k", "e", "r">> >>

\* 02 happy 0 glad 0 | feeling joy, type a
lHappy == RecordLine(<<"a">>, <<"0", "2">>, <<wHappy, wGlad>>, gFeelingJoy)
\* the synset {builder, constructor} of data.noun
lBuilder == RecordLine(<<"n">>, <<"0", "2">>, <<wBuilder, sConstructor>>, gMaker)
\* a word count of 00
lZero == RecordLine(<<"n">>, <<"0", "0">>, << >>, gMaker)
\* a word count that is no number
lBad == RecordLine(<<"n">>, <<"z", "z">>, << <<"a">> >>, gMaker)
\* two spellings of one word and a word of two parts
lMixed == RecordLine(<<"v">>, <<"0", "3">>, << <<"A">>, <<"a">>, <<"b", "_", "c">> >>, gMaker)
\* a synset type that is none of n, v, a, s, r
lUnknown == RecordLine(<<"x">>, <<"0", "1">>, << <<"a">> >>, gMaker)
\* an adverb
lAdverb == RecordLine(<<"r">>, <<"0", "1">>, << <<"b">> >>, gMaker)
\* an adjective satellite without a gloss
lSatellite == RecordLine(<<"s">>, <<"0", "1">>, << <<"B">> >>, << >>)
\* a line of the licence header
lHeader == DataLine(TRUE, << <<"1">>, <<"T", "h", "i", "s">> >>, NoSynset)
lEmpty == DataLine(FALSE, << >>, NoSynset)

LinePool ==
    { lHappy, lBuilder, lZero, lBad, lMixed, lUnknown, lAdverb, lSatellite,
      lHeader, lEmpty }

NextCompile ==
    \/ DataFileMissing
    \/ DataFileRead
    \/ \E line \in LinePool : ReadLine(line)
    \/ EndOfFile
    \/ WriteArtifact

SpecCompile == Init /\ [][NextCompile]_vars

---------------------------------------------------------------------------
(* What the user types.  Keyboard: the contents of a short session;        *)
(* CapKeyboard: the two words of a long one.                               *)

Keyboard ==
    { sEmpty, <<" ">>, <<"a">>, <<" ", "A", " ">>, <<"b">>, <<"z">>, sProto }

CapKeyboard == { <<"a">>, <<"B">> }

RecallHeld == historyIndex < MaxRecall

Load == LoadResolved \/ LoadFailed

Focus == FocusInput \/ BlurInput

Next ==
    \/ Load
    \/ Focus
    \/ \E s \in Keyboard : onChange(s)
    \/ KeyEnter
    \/ KeyEscape
    \/ (RecallHeld /\ KeyArrowUp)
    \/ KeyArrowDown
    \/ (Len(historyRef) < MaxSession /\ ClickSearch)
    \/ (Len(historyRef) < MaxSession /\ \E syn \in Synonyms(result) : onClickSynonym(syn))

Spec == Init /\ [][Next]_vars

NextCap ==
    \/ Load
    \/ Focus
    \/ \E s \in CapKeyboard : onChange(s)
    \/ KeyEnter
    \/ KeyEscape
    \/ (RecallHeld /\ KeyArrowUp)
    \/ KeyArrowDown
    \/ ClickSearch
    \/ \E syn \in Synonyms(result) : onClickSynonym(syn)

SpecCap == Init /\ [][NextCap]_vars

---------------------------------------------------------------------------
(* The compiler followed by a client that loads what it wrote *)

\* a session of SpecPipeline records at most this many history entries
MaxClicks == 2

PipelineLines == { lBuilder, lMixed }

PipelineKeyboard == { wBuilder, <<"A">> }

\* the load effect on the artifact the script wrote
LoadCompiled ==
    /\ loading
    /\ written # null
    /\ dictionary' = written
    /\ loading' = FALSE
    /\ event' = Ev("loaded")
    /\ UNCHANGED <<word, result, error, history, historyRef, historyIndex, focused>>
    /\ UNCHANGED cvars

NextPipeline ==
    \/ DataFileRead
    \/ \E line \in PipelineLines : ReadLine(line)
    \/ EndOfFile
    \/ WriteArtifact
    \/ LoadCompiled
    \/ \E s \in PipelineKeyboard : onChange(s)
    \/ (Len(historyRef) < MaxClicks /\ ClickSearch)
    \/ (Len(historyRef) < MaxClicks /\ \E syn \in Synonyms(result) : onClickSynonym(syn))

SpecPipeline == Init /\ [][NextPipeline]_vars

---------------------------------------------------------------------------
(* Vocabulary of the properties *)

\* s is empty after trimming
IsBlank(s) == \A i \in 1..Len(s) : s[i] \in {" ", "\t"}

\* the step submits a query: the Search button, a synonym token, or Enter with
\* the query field focused; its input is the field content after the step
\* (the Search button and Enter leave the field alone, a synonym token fills it)
Submitted ==
    \/ event'.name \in {"search", "synonym"}
    \/ event'.name = "Enter" /\ focused

\* the step submits a query by the Search button or a synonym token
Clicked == event'.name \in {"search", "synonym"}

Loaded == ~loading /\ Truthy(dictionary)
LoadHasFailed == ~loading /\ ~Truthy(dictionary)

\* what the Search button does to the current state
SearchOutcome(field) ==
    doSearch(undefined, field, dictionary, result, history, historyRef, historyIndex)

Last(h) == h[Len(h)]

---------------------------------------------------------------------------
\* C1: once the lexicon has loaded, Enter with the query field focused gives the
\* displayed result, the error message and the history that the Search button
\* gives in the same state.
C1_EnterAsSearch ==
    [][ (event'.name = "Enter" /\ focused /\ Loaded)
          => LET r == SearchOutcome(word)
             IN /\ result' = r.result
                /\ error' = r.error
                /\ historyRef' = r.historyRef
                /\ history' = r.history ]_vars

\* C2: after a failed load the load failure is what the user is shown for the
\* rest of the session, no result is displayed and the history stays empty.
C2_LoadFailurePersists ==
    LoadHasFailed =>
        /\ error = "Failed to load dictionary."
        /\ result = null
        /\ historyRef = << >>
        /\ history = << >>

\* C3: a query whose input is empty after trimming leaves the history unchanged
\* and yields the empty-input validation error, in every state.
C3_EmptyQuery ==
    [][ (Submitted /\ IsBlank(word'))
          => /\ historyRef' = historyRef
             /\ history' = history
             /\ error' = "Please enter a word." ]_vars

\* an empty query ran with entries in the history and an entry recalled
C3_Witness ==
    /\ event.name = "search"
    /\ IsBlank(word)
    /\ error = "Please enter a word."
    /\ Len(historyRef) >= 2
    /\ historyIndex >= 0

\* C4 as stated: an empty query changes nothing but the error message: the
\* displayed result, the query field, the history and the cursor stay.
C4_EmptyQueryChangesNothing ==
    [][ (Submitted /\ IsBlank(word'))
          => /\ result' = result
             /\ word' = word
             /\ historyRef' = historyRef
             /\ history' = history
             /\ historyIndex' = historyIndex ]_vars

\* C4 amended: an empty query shows the validation error and clears the
\* displayed result; the query field, the history and the cursor stay.
C4_EmptyQueryClearsResult ==
    [][ (Submitted /\ IsBlank(word'))
          => /\ result' = null
             /\ error' = "Please enter a word."
             /\ word' = word
             /\ historyRef' = historyRef
             /\ history' = history
             /\ historyIndex' = historyIndex ]_vars

\* an empty query ran on a loaded lexicon with a non-empty blank field, and no
\* result is displayed after it
C4_Witness ==
    /\ event.name = "search"
    /\ Loaded
    /\ word = <<" ">>
    /\ result = null
    /\ error = "Please enter a word."
    /\ historyIndex = 1

\* C5: with the lexicon loaded, a query of the Search button or of a synonym
\* token on a non-empty normalized term t either finds no entry of the lexicon
\* under t, clears the result, shows "No match." and records t, or displays
\* the entry of t with no error and records t.
C5_TwoOutcomes ==
    [][ (Clicked /\ Loaded /\ ~IsBlank(word'))
          => LET t == toLowerCase(trim(word'))
             IN /\ IF t \in DOMAIN dictionary.own
                   THEN result' = dictionary.own[t] /\ error' = ""
                   ELSE result' = null /\ error' = "No match."
                /\ Last(historyRef') = t ]_vars

\* C6: a recorded query of term t appends t exactly when t differs from the
\* last entry, and no two adjacent entries of the history are ever equal.
C6_ImmediateDedup ==
    /\ [](\A i \in 1..(Len(historyRef) - 1) : historyRef[i] # historyRef[i + 1])
    /\ [](history = historyRef)
    /\ [][ (Clicked /\ Loaded /\ ~IsBlank(word'))
             => LET t == toLowerCase(trim(word'))
                    grown == Append(historyRef, t)
                IN IF Len(historyRef) = 0 \/ Last(historyRef) # t
                   THEN historyRef' = IF Len(grown) > HistoryCap
                                      THEN Tail(grown) ELSE grown
                   ELSE historyRef' = historyRef ]_vars

\* A, B, A was queried after evictions: the history ends in a, b, a
C6_Witness ==
    /\ event.shifted
    /\ Len(historyRef) = HistoryCap
    /\ SubSeq(historyRef, HistoryCap - 2, HistoryCap) = << <<"a">>, <<"b">>, <<"a">> >>

\* C7: the history never holds more than 100 entries, and a push onto 100
\* entries drops the oldest and appends the term, the other 99 keeping their
\* order.
C7_Capped ==
    /\ [](Len(historyRef) <= 100 /\ Len(history) <= 100)
    /\ [][ (Len(historyRef) = 100 /\ historyRef' # historyRef)
             => /\ Clicked
                /\ historyRef' = Append(Tail(historyRef), toLowerCase(trim(word')))
                /\ history' = historyRef' ]_vars

\* a push onto a full history has evicted the oldest entry
C7_Witness ==
    /\ event.shifted
    /\ Len(historyRef) = 100
    /\ Len(history) = 100

\* C8: over a history of n > 0 entries, a backward step with the cursor at c
\* (the (c+2)-th consecutive one from a fresh cursor while c < n-1) recalls the
\* entry c+1 places behind the newest, or the oldest once the cursor is there; a
\* forward step with an entry older than the newest recalled recalls the next
\* newer one; a forward step with the newest recalled, or a fresh cursor,
\* empties the field and makes the cursor fresh.
C8_Recall ==
    /\ [][ (event'.name = "ArrowUp" /\ Len(historyRef) > 0)
             => IF historyIndex < Len(historyRef) - 1
                THEN /\ historyIndex' = historyIndex + 1
                     /\ word' = historyRef[Len(historyRef) - (historyIndex + 1)]
                ELSE /\ historyIndex' = historyIndex
                     /\ word' = historyRef[1] ]_vars
    /\ [][ (event'.name = "ArrowDown" /\ Len(historyRef) > 0)
             => IF historyIndex >= 1
                THEN /\ historyIndex' = historyIndex - 1
                     /\ word' = historyRef[Len(historyRef) - historyIndex + 1]
                ELSE /\ historyIndex' = -1
                     /\ word' = sEmpty ]_vars

\* on three entries, a forward step taken two places back shows the
\* entry one place back
C8_Witness ==
    /\ event.name = "ArrowDown"
    /\ Len(historyRef) = 3
    /\ historyIndex = 1
    /\ word = historyRef[2]
    /\ historyRef[2] # historyRef[3]

\* C9: with the lexicon loaded, after every submitted query on a non-empty
\* term the cursor is none.
C9_CursorReset ==
    [][ (Submitted /\ Loaded /\ ~IsBlank(word')) => historyIndex' = -1 ]_vars

\* C10: a synonym token W gives the displayed result, the error message, the
\* history and the cursor that the Search button gives with W in the field.
C10_SynonymAsTyped ==
    [][ event'.name = "synonym"
          => LET r == SearchOutcome(word')
             IN /\ result' = r.result
                /\ error' = r.error
                /\ historyRef' = r.historyRef
                /\ history' = r.history
                /\ historyIndex' = r.historyIndex ]_vars

\* a synonym token was selected while an older entry was recalled
\* and a different word was in the field; its entry is displayed and recorded
C10_Witness ==
    /\ event.name = "synonym"
    /\ result.tag = "object"
    /\ error = ""
    /\ Len(historyRef) >= 2
    /\ toLowerCase(word) = Last(historyRef)

---------------------------------------------------------------------------
(* Vocabulary of the properties of the compiler *)

\* the line the step has read
LineRead == read'[Len(read')].line

\* N as the two hexadecimal digits of a word count
HexCount(n) == <<HexDigits[(n \div 16) + 1], HexDigits[(n % 16) + 1]>>

PosGroups == {"noun", "verb", "adj", "adv"}

\* n -> noun, v -> verb, a and s -> adj, r -> adv
GroupOf(ss_type) ==
    CASE ss_type = <<"n">> -> "noun"
      [] ss_type = <<"v">> -> "verb"
      [] ss_type \in {<<"a">>, <<"s">>} -> "adj"
      [] ss_type = <<"r">> -> "adv"
      [] OTHER -> "none"

\* the words of a synset as terms: underscores are spaces
TermsOf(synset) == [i \in 1..Len(synset.words) |-> replaceUnderscores(synset.words[i])]

\* the sense records of term k in group g of the lexicon c
SensesOf(c, k, g) == IF k \in DOMAIN c /\ g \in DOMAIN c[k] THEN c[k][g] ELSE << >>

\* the sense records the synset adds under key k: one for each of its words
\* that k is the lower case of, with the other words as synonyms
SensesAdded(synset, k) ==
    LET terms == TermsOf(synset)
        mine == SelectSeq(terms, LAMBDA w : toLowerCase(w) = k)
    IN [i \in 1..Len(mine) |->
          [definition |-> Join(synset.gloss),
           synonyms |-> SelectSeq(terms,
                                  LAMBDA x : toLowerCase(x) # toLowerCase(mine[i]))]]

\* a word count that decodes to zero, or that has no hexadecimal digit to decode
ZeroOrNoCount(w_cnt) ==
    \/ w_cnt # << >> /\ \A i \in 1..Len(w_cnt) : w_cnt[i] = "0"
    \/ w_cnt # << >> /\ w_cnt[1] \notin { HexDigits[i] : i \in 1..16 }

\* every synonym string of the artifact a
ArtifactSynonyms(a) == UNION { Synonyms(a.own[k]) : k \in DOMAIN a.own }

\* the synonym tokens shown in group g of the displayed result
SynonymsIn(res, g) ==
    UNION { { d.synonyms[i] : i \in 1..Len(d.synonyms) }
            : d \in { res.own[g][j] : j \in 1..Len(res.own[g]) } }

---------------------------------------------------------------------------
\* C11: a record with word count N >= 1, words w1..wN, gloss g and a recognized
\* type adds, for every wi, one sense record under key lowercase(wi) in the
\* group of the type, with definition g and the other words as synonyms; it
\* adds nothing else.
C11_RecordCompiled ==
    [][ (/\ event'.name = "line"
         /\ Len(LineRead.synset.words) >= 1
         /\ LineRead.synset.w_cnt = HexCount(Len(LineRead.synset.words))
         /\ GroupOf(LineRead.synset.ss_type) \in PosGroups)
          => \A g \in PosGroups :
               \A k \in DOMAIN compiled \cup DOMAIN compiled'
                        \cup { toLowerCase(w) : w \in
                                 { TermsOf(LineRead.synset)[i] :
                                     i \in 1..Len(LineRead.synset.words) } } :
                 SensesOf(compiled', k, g) =
                   SensesOf(compiled, k, g)
                     \o (IF g = GroupOf(LineRead.synset.ss_type)
                         THEN SensesAdded(LineRead.synset, k) ELSE << >>) ]_vars

\* C12: a line whose word count is zero or cannot be parsed leaves the
\* lexicon as it was, and the loop over the lines goes on.
C12_ZeroCountSkipped ==
    [][ (event'.name = "line" /\ ZeroOrNoCount(LineRead.synset.w_cnt))
          => /\ compiled' = compiled
             /\ objectProps' = objectProps
             /\ fileOpen'
             /\ cat' = cat ]_vars

\* a record was compiled after a line with word count 00
C12_Witness ==
    /\ Len(read) = 2
    /\ read[1].line = lZero
    /\ read[2].line = lHappy
    /\ DOMAIN compiled = {wHappy, wGlad}

\* C13: a missing data file is logged as a warning, adds nothing, and the
\* run goes on to the next category.
C13_MissingFileWarned ==
    [][ event'.name = "missing"
          => /\ Len(console') > Len(console)
             /\ console'[Len(console')].level = "warn"
             /\ compiled' = compiled
             /\ cat' = cat + 1 ]_vars

\* C14: every synonym string of the written artifact, looked up as the keys
\* are written (in lower case), is a key of the artifact.
C14_SynonymsAreKeys ==
    written # null
      => \A s \in ArtifactSynonyms(written) : toLowerCase(s) \in DOMAIN written.own

---------------------------------------------------------------------------
\* C15: while the load is pending no user action changes the displayed
\* result, the error message or the history: they are as at startup.
C15_NothingWhileLoading ==
    /\ [](loading => /\ result = null
                     /\ error = ""
                     /\ historyRef = << >>
                     /\ history = << >>)
    /\ [][ (loading /\ loading')
             => /\ result' = result
                /\ error' = error
                /\ historyRef' = historyRef
                /\ history' = history ]_vars

\* a key was pressed while the load was pending
C15_Witness ==
    /\ loading
    /\ event.name \in {"Enter", "Escape", "ArrowUp", "ArrowDown"}

\* C16: a recall step changes only the query field and the cursor.
C16_RecallFrame ==
    [][ event'.name \in {"ArrowUp", "ArrowDown"}
          => /\ result' = result
             /\ error' = error
             /\ historyRef' = historyRef
             /\ history' = history
             /\ dictionary' = dictionary
             /\ loading' = loading ]_vars

\* an older entry was recalled while the result of the newest query is shown
C16_Witness ==
    /\ event.name = "ArrowUp"
    /\ historyIndex = 1
    /\ result.tag = "object"
    /\ word # historyRef[Len(historyRef)]

\* C17: Escape empties the query field and clears the displayed result, and
\* leaves the history, the cursor and the error message as they were.
C17_EscapeFrame ==
    [][ event'.name = "Escape"
          => /\ word' = sEmpty
             /\ result' = null
             /\ historyRef' = historyRef
             /\ history' = history
             /\ historyIndex' = historyIndex
             /\ error' = error ]_vars

\* Escape was pressed with an older entry recalled and a message shown
C17_Witness ==
    /\ event.name = "Escape"
    /\ historyIndex >= 1
    /\ error = "No match."
    /\ word = sEmpty

\* C18: the cursor is at least -1 and at most the last position of the history.
C18_CursorInRange ==
    /\ -1 <= historyIndex
    /\ historyIndex <= Len(historyRef) - 1

\* an entry behind the newest is recalled from a history at the capacity bound
C18_Witness ==
    /\ Len(historyRef) = HistoryCap
    /\ event.name = "ArrowUp"
    /\ historyIndex >= 2

\* C19: a displayed result and an error message are never shown together.
C19_ResultExcludesError ==
    Truthy(result) => error = ""

\* an entry is displayed after a query that followed two others
C19_Witness ==
    /\ event.name = "search"
    /\ result.tag = "object"
    /\ error = ""
    /\ Len(historyRef) = 3

\* C20: with the lexicon the compiler wrote, a selected synonym token never
\* ends in "No match.": its trimmed lower case is a key of the lexicon, the
\* entry of that key is displayed, and that entry has a sense in every group
\* the token was shown in.
C20_SynonymResolves ==
    [][ event'.name = "synonym"
          => LET t == toLowerCase(trim(word'))
             IN /\ error' # "No match."
                /\ t \in DOMAIN dictionary.own
                /\ result' = dictionary.own[t]
                /\ \A g \in DOMAIN result.own :
                     word' \in SynonymsIn(result, g)
                       => /\ g \in DOMAIN result'.own
                          /\ Len(result'.own[g]) >= 1 ]_vars

====
